---- MODULE Spec2Model ----
(***************************************************************************)
(* Rate-limit middleware of the RevenueCat API client                      *)
(* (src/src/rateLimitMiddleware.ts, class RateLimitManager and             *)
(* createRateLimitMiddleware, the variant with the retryability check).    *)
(*                                                                         *)
(* The middleware runs on a single-threaded event loop.  Every hook        *)
(* invocation is a task; a task runs without interruption between two      *)
(* await points, so every action below is one such synchronous segment.    *)
(* The await points are: delay() (a timer), fetch() (the transport) and    *)
(* isRetryable() (reading the body of a response).                         *)
(***************************************************************************)
EXTENDS Integers, Sequences, FiniteSets, TLC

(***************************************************************************)
(* Bounds of the model.                                                    *)
(***************************************************************************)
\* the clock advances in steps of TickMs milliseconds ...
TickMs == 1000
\* ... at most MaxTicks times
MaxTicks == 3
\* number of hook invocations a client with calls in flight makes in one run
MaxCalls == 3
\* number of hook invocations a client with one retry loop at a time makes
\* in one run
MaxCallsOneLoop == 2
\* number of hook invocations a client makes in one run that sends further
\* requests while a rate-limited call is retried
MaxCallsWaiting == 4

\* ... and MaxTicksExhausting times for a client that waits for a retry loop
\* to use up its attempts
MaxTicksExhausting == 6

\* the hook invocations that may be in progress at the same time
Procs == {1, 2, 3}
MaxNow == MaxTicks * TickMs
MaxNowExhausting == MaxTicksExhausting * TickMs

(***************************************************************************)
(* Requests.  A request has a method and a URL; of the URL the code uses   *)
(* only the pathname (new URL(request.url).pathname), the query string is  *)
(* carried along and ignored, and so is the body.                          *)
(***************************************************************************)
Req(m, p, q) ==
    [method |-> m, url |-> [pathname |-> p, search |-> q], body |-> ""]

\* new Request(url, { method, body })
WithBody(request, b) == [request EXCEPT !.body = b]

Requests ==
    { Req("GET", "/a", ""), Req("GET", "/a", "?id=1"), Req("POST", "/a", "") }

\* a key that leaves the path out
getEndpointKeyMethodOnly(request) == <<request.method, "">>

\* a key that leaves the method out
getEndpointKeyPathOnly(request) == <<"", request.url.pathname>>

\* a key made of the whole URL after the host
getEndpointKeyWithQuery(request) ==
    <<request.method, request.url.pathname \o request.url.search>>

\* `${request.method}:${url.pathname}`
getEndpointKey(request) == <<request.method, request.url.pathname>>

\* the endpoint identity of a request: its method and its path
EndpointOf(request) == <<request.method, request.url.pathname>>

(***************************************************************************)
(* Responses.  headers is the Headers object (a map from header name to    *)
(* the header's text, a sequence of characters); body is the text of the   *)
(* body as response.json() sees it: valid says whether it is JSON, type    *)
(* is the JSON type of the parsed value, keys are the keys of a parsed     *)
(* object and retryable is the value of its "retryable" member.  seq is    *)
(* the identity of the Response object inside one invocation: 0 for the    *)
(* response handed to the hook, n for the one the n-th retry resolved to.  *)
(***************************************************************************)
NoHeaders == [h \in {} |-> <<>>]
RetryAfterHeader(chars) == [h \in {"Retry-After"} |-> chars]

TextBody == [valid |-> FALSE, type |-> "none", keys |-> {}, retryable |-> "undefined"]
JsonBody(t) == [valid |-> TRUE, type |-> t, keys |-> {}, retryable |-> "undefined"]
ErrorBody(v) ==
    [valid |-> TRUE, type |-> "object",
     keys |-> {"type", "message", "retryable", "doc_url", "backoff_ms"},
     retryable |-> v]
PlainObjectBody ==
    [valid |-> TRUE, type |-> "object", keys |-> {"type", "message"},
     retryable |-> "undefined"]

Resp(st, hd, bd) == [status |-> st, headers |-> hd, body |-> bd, seq |-> 0]

NoResponse == [status |-> 0, headers |-> NoHeaders, body |-> TextBody, seq |-> -1]

\* what the server may answer to a retried request
Replies ==
    { Resp(200, NoHeaders, TextBody),
      Resp(429, NoHeaders, TextBody),
      Resp(429, RetryAfterHeader(<<"2">>), ErrorBody("true")),
      Resp(429, RetryAfterHeader(<<"1">>), ErrorBody("false")) }

\* what the client may hand to the post-receive hook
Responses ==
    Replies \cup
    { Resp(503, RetryAfterHeader(<<"2">>), ErrorBody("true")),
      Resp(429, RetryAfterHeader(<<"0">>), PlainObjectBody),
      Resp(429, RetryAfterHeader(<<"s", "o", "o", "n">>), TextBody),
      Resp(429, RetryAfterHeader(<<"-", "1">>), ErrorBody("true")) }

\* the requests, responses and replies of the client with calls in flight
ConcurrentRequests == { Req("GET", "/a", ""), Req("GET", "/b", "") }

ConcurrentReplies ==
    { Resp(200, NoHeaders, TextBody),
      Resp(429, NoHeaders, TextBody),
      Resp(429, RetryAfterHeader(<<"2">>), ErrorBody("false")) }

ConcurrentResponses == ConcurrentReplies

\* the requests, responses and replies of a client that calls many
\* endpoints, and one endpoint in several ways
EndpointRequests ==
    { Req("GET", "/a", ""), Req("GET", "/a", "?id=1"), Req("GET", "/b", ""),
      WithBody(Req("POST", "/a", ""), "{}"),
      WithBody(Req("POST", "/a", ""), "{\"id\":1}") }

EndpointReplies ==
    { Resp(200, NoHeaders, TextBody),
      Resp(429, NoHeaders, TextBody) }

EndpointResponses ==
    EndpointReplies \cup { Resp(429, RetryAfterHeader(<<"2">>), ErrorBody("true")) }

\* the requests, responses and replies of a client whose server answers
\* with Retry-After headers and bodies of every shape: no header, an empty
\* one, integers with and without a sign, an integer followed by other
\* characters, no integer at all; no JSON, an object with a retryable
\* member of any JSON type or without one, JSON that is no object
ParsingRequests == { Req("GET", "/a", "") }

ParsingHeaders ==
    { NoHeaders } \cup
    { RetryAfterHeader(chars) :
        chars \in { <<>>, <<"0">>, <<"2">>, <<"0", "3">>, <<"-", "1">>, <<"+", "2">>,
                    <<"2", "s">>, <<"1", ".", "5">>, <<"-">>, <<"s", "o", "o", "n">> } }

ParsingBodies ==
    { TextBody, PlainObjectBody,
      ErrorBody("true"), ErrorBody("false"), ErrorBody("null"), ErrorBody("0"),
      ErrorBody("\"false\""),
      JsonBody("number"), JsonBody("string"), JsonBody("boolean"),
      JsonBody("array"), JsonBody("null") }

ParsingReplies ==
    { Resp(200, NoHeaders, TextBody),
      Resp(429, RetryAfterHeader(<<"0">>), ErrorBody("true")),
      Resp(429, RetryAfterHeader(<<"-", "1">>), JsonBody("null")),
      Resp(429, NoHeaders, ErrorBody("false")) }

ParsingResponses ==
    { Resp(200, NoHeaders, TextBody) }
    \cup { Resp(429, headers, TextBody) : headers \in ParsingHeaders }
    \cup { Resp(429, RetryAfterHeader(<<"0">>), body) : body \in ParsingBodies }

\* the requests, responses and replies of a client whose server goes on
\* answering 429 with Retry-After: 2
ExhaustingRequests == { Req("GET", "/a", "") }

ExhaustingResponses == { Resp(429, RetryAfterHeader(<<"2">>), TextBody) }

ExhaustingReplies ==
    { Resp(429, RetryAfterHeader(<<"2">>), TextBody),
      Resp(200, NoHeaders, TextBody) }

\* the requests, responses and replies of a client with several requests to
\* one endpoint held back at the same time
WaitingRequests == { Req("GET", "/a", "") }

WaitingReplies ==
    { Resp(200, NoHeaders, TextBody),
      Resp(429, NoHeaders, TextBody),
      Resp(429, RetryAfterHeader(<<"2">>), TextBody) }

WaitingResponses == WaitingReplies

\* the requests, responses and replies of a client that fills the registry:
\* requests to two endpoints, two of them to the same one
RegistryRequests ==
    { Req("GET", "/a", ""), Req("GET", "/a", "?id=1"), Req("POST", "/a", "") }

RegistryReplies ==
    { Resp(200, NoHeaders, TextBody),
      Resp(429, NoHeaders, ErrorBody("false")) }

RegistryResponses ==
    RegistryReplies \cup { Resp(429, RetryAfterHeader(<<"2">>), TextBody) }

\* the requests, responses and replies of a client of a manager whose queue
\* holds deferred work
QueueRequests == { Req("GET", "/a", "") }

QueueReplies ==
    { Resp(200, NoHeaders, TextBody),
      Resp(429, NoHeaders, TextBody) }

QueueResponses == QueueReplies

\* the requests, responses and replies of a client whose rate-limited calls
\* to one endpoint get retry-after times that differ
InterferingRequests == { Req("GET", "/a", "") }

InterferingReplies ==
    { Resp(200, NoHeaders, TextBody),
      Resp(429, NoHeaders, TextBody),
      Resp(429, RetryAfterHeader(<<"2">>), TextBody),
      Resp(429, RetryAfterHeader(<<"2">>), ErrorBody("false")) }

InterferingResponses == InterferingReplies

PatientRequests == { Req("GET", "/a", "") }

PatientReplies ==
    { Resp(200, NoHeaders, TextBody),
      Resp(429, NoHeaders, TextBody) }

PatientResponses == PatientReplies

\* transport-level failures of fetch
Errors == { "Network error" }

(***************************************************************************)
(* parseInt(text, 10): skip leading white space, read an optional sign,    *)
(* then the longest run of decimal digits; NaN when there is no digit.     *)
(***************************************************************************)
Digits == <<"0", "1", "2", "3", "4", "5", "6", "7", "8", "9">>
IsDigit(c) == \E i \in 1..10 : Digits[i] = c
DigitVal(c) == (CHOOSE i \in 1..10 : Digits[i] = c) - 1
IsSpace(c) == c \in {" ", "\t", "\n"}

RECURSIVE SkipSpaces(_)
SkipSpaces(s) ==
    IF s # <<>> /\ IsSpace(Head(s)) THEN SkipSpaces(Tail(s)) ELSE s

RECURSIVE ReadDigits(_, _, _)
\* acc is the value read so far, n the number of digits read
ReadDigits(s, acc, n) ==
    IF s # <<>> /\ IsDigit(Head(s))
    THEN ReadDigits(Tail(s), acc * 10 + DigitVal(Head(s)), n + 1)
    ELSE [value |-> acc, digits |-> n]

parseInt(text) ==
    LET t == SkipSpaces(text)
        neg == t # <<>> /\ Head(t) = "-"
        u == IF t # <<>> /\ Head(t) \in {"-", "+"} THEN Tail(t) ELSE t
        d == ReadDigits(u, 0, 0)
    IN  [isNaN |-> d.digits = 0,
         value |-> IF neg THEN 0 - d.value ELSE d.value]

\* response.headers.get(name): the text, or null
HeadersGet(headers, name) ==
    IF name \in DOMAIN headers
    THEN [isNull |-> FALSE, text |-> headers[name]]
    ELSE [isNull |-> TRUE, text |-> <<>>]

fallbackRetryAfter == 1

\* a parser that takes 0 for no value: parseInt(retryAfter, 10) || 1
getRetryAfterTimeOrDefault(response) ==
    LET retryAfter == HeadersGet(response.headers, "Retry-After")
        seconds == parseInt(retryAfter.text)
    IN  IF retryAfter.isNull \/ seconds.isNaN \/ seconds.value = 0
        THEN fallbackRetryAfter
        ELSE seconds.value

getRetryAfterTime(response) ==
    LET retryAfter == HeadersGet(response.headers, "Retry-After")
    IN  IF ~retryAfter.isNull /\ retryAfter.text # <<>>
        THEN LET seconds == parseInt(retryAfter.text)
             IN  IF ~seconds.isNaN THEN seconds.value ELSE fallbackRetryAfter
        ELSE fallbackRetryAfter

\* a check that takes every falsy retryable member for false
isRetryableTruthy(response) ==
    LET body == response.body
    IN  IF body.valid /\ body.type = "object" /\ "retryable" \in body.keys
        THEN body.retryable \notin {"false", "null", "0"}
        ELSE TRUE

\* the middleware before the retryability check was added
isRetryableAlways(response) == TRUE

(***************************************************************************)
(* isRetryable: json() throws on a body that is not JSON, and the catch    *)
(* answers true; typeof null and typeof [] are "object".                   *)
(***************************************************************************)
TypeofObject(body) == body.type \in {"object", "array", "null"}

isRetryable(response) ==
    LET body == response.body
    IN  IF ~body.valid
        THEN TRUE
        ELSE IF TypeofObject(body) /\ body.type # "null" /\ "retryable" \in body.keys
             THEN body.retryable # "false"
             ELSE TRUE

(***************************************************************************)
(* Endpoint states: the Map endpointStates, from endpoint key to state.    *)
(***************************************************************************)
\* a retry loop that runs once more
maxRetriesOneMore == 3 + 1

maxRetries == 3
maxQueueSize == 100

DefaultState ==
    [isThrottled |-> FALSE, retryAfter |-> 0, queue |-> <<>>,
     lastRetryTime |-> 0, processing |-> FALSE]

\* a creation that does not look whether the key is there
InitEndpointStateAlways(states, key) ==
    (key :> DefaultState) @@ states

\* if (!this.endpointStates.has(endpointKey)) this.endpointStates.set(endpointKey, {...})
InitEndpointState(states, key) ==
    IF key \in DOMAIN states THEN states ELSE (key :> DefaultState) @@ states

\* a clear that puts the whole state back to its defaults
ResetState(states, key) ==
    [states EXCEPT ![key] = DefaultState]

\* state.isThrottled = false
ClearThrottled(states, key) ==
    [states EXCEPT ![key] = [@ EXCEPT !.isThrottled = FALSE]]

\* state.isThrottled = true; state.retryAfter = retryAfter; state.lastRetryTime = Date.now()
RecordSignal(states, key, retryAfter, t) ==
    [states EXCEPT ![key] =
        [@ EXCEPT !.isThrottled = TRUE, !.retryAfter = retryAfter, !.lastRetryTime = t]]

\* a loop that stores the new retry-after time and not the time of the signal
UpdateSignalKeepingTime(states, key, retryAfter, t) ==
    [states EXCEPT ![key] = [@ EXCEPT !.retryAfter = retryAfter]]

\* state.retryAfter = retryAfter; state.lastRetryTime = Date.now()  (inside the loop)
UpdateSignal(states, key, retryAfter, t) ==
    [states EXCEPT ![key] =
        [@ EXCEPT !.retryAfter = retryAfter, !.lastRetryTime = t]]

\* a wait of the whole retry-after time, counted from the call
waitTimeFromNow(state, t) == state.retryAfter * 1000

\* a wait computed with retryAfter taken for milliseconds
waitTimeNoScale(state, t) == state.lastRetryTime + state.retryAfter - t

\* const waitTime = state.lastRetryTime + state.retryAfter * 1000 - now
waitTime(state, t) == state.lastRetryTime + state.retryAfter * 1000 - t

\* the queue lengths warnIfQueueTooLarge is applied to: none, and the
\* lengths around maxQueueSize
QueueSizes == {0, maxQueueSize - 1, maxQueueSize, maxQueueSize + 1}

\* a queue of n deferred requests
Queued(n, request) == [i \in 1..n |-> request]

\* return state?.queue.length || 0
getQueueSize(states, request) ==
    LET endpointKey == getEndpointKey(request)
    IN  IF endpointKey \in DOMAIN states THEN Len(states[endpointKey].queue) ELSE 0

\* a check that warns only above the maximum
warnIfQueueAboveMax(states, request) ==
    getQueueSize(states, request) > maxQueueSize

\* whether warnIfQueueTooLarge calls console.warn
warnIfQueueTooLarge(states, request) ==
    getQueueSize(states, request) >= maxQueueSize

\* taking every status from 429 on for a rate-limit signal
isRateLimitedFrom429(response) == response.status >= 429

\* response.status === 429
isRateLimited(response) == response.status = 429

(***************************************************************************)
(* State of the model.                                                     *)
(***************************************************************************)
VARIABLES
    endpointStates, \* the Map of the RateLimitManager
    now,            \* Date.now(), in milliseconds
    pc,             \* per invocation: the await point it is suspended at
    call,           \* per invocation: arguments, locals, and what it did so far
    result,         \* per invocation: what the hook returned or threw
    signalled,      \* the endpoint keys a retryable 429 was recorded for
    lastSignal,     \* per endpoint: the latest retryable 429 handled, and when
    lastRelease,    \* per endpoint: the latest pre-send hook that returned
    started,        \* the number of hook invocations made so far
    client          \* what the client and the server of this run may do

vars ==
    <<endpointStates, now, pc, call, result, signalled, lastSignal,
      lastRelease, started, client>>

NoRequest == Req("", "", "")

\* the second argument of fetch, a map from option names to values: {} in
\* fetch(request, {}); NoOptions while fetch has not been called
EmptyOptions == [name \in {} |-> ""]
NoOptions == [name \in {"none"} |-> ""]

\* hook: which hook runs; request, response: its arguments; retryAfter,
\* lastResponse, retryResponse, attempt: the locals of handleResponse;
\* delayStart, delayMs: the pending (or last) call of delay(); fetchError:
\* the error the last fetch rejected with; sentRequest, sentOptions: the
\* arguments of the last fetch; sends, waits, warned: the number of fetch
\* calls, the number of delay calls, and whether console.warn ran.
IdleCall ==
    [hook |-> "none", request |-> NoRequest, response |-> NoResponse,
     retryAfter |-> 0, lastResponse |-> NoResponse, retryResponse |-> NoResponse,
     attempt |-> 0, delayStart |-> 0, delayMs |-> 0, fetchError |-> "",
     sentRequest |-> NoRequest, sentOptions |-> NoOptions,
     sends |-> 0, waits |-> 0, warned |-> FALSE]

NoResult == [kind |-> "none", response |-> NoResponse, error |-> ""]
Undefined == [kind |-> "undefined", response |-> NoResponse, error |-> ""]
Returned(response) == [kind |-> "response", response |-> response, error |-> ""]
Thrown(error) == [kind |-> "error", response |-> NoResponse, error |-> error]

\* the latest retryable 429 handled for the endpoint of c.request: the
\* headers it came with, the time it was recorded at, and which response of
\* the invocation it was (seq: 0 the response the hook was called with, n
\* the answer to the n-th retry)
Signal(signals, c, response) ==
    (EndpointOf(c.request) :>
        [headers |-> response.headers, at |-> now, seq |-> response.seq]) @@ signals

\* the latest pre-send hook for the endpoint of c.request whose return the
\* caller has taken: the number of its waits, and the time from which it
\* could return (when the timer of its wait was due; without a wait, when
\* it was called)
Release(releases, c) ==
    (EndpointOf(c.request) :>
        [waits |-> c.waits,
         due |-> IF c.waits = 0 THEN now ELSE c.delayStart + c.delayMs]) @@ releases

\* slots: the hook invocations in progress at a time; loops: those of them
\* that may be retry loops of handleResponse; calls: the hook invocations
\* made in one run; maxNow: the time the run lasts; records: whether the
\* run keeps lastRelease, the record of the pre-send hooks that returned;
\* patient: whether the run lasts, beyond maxNow, until every timer that is
\* pending has fired;
\* requests, responses, replies: what the hooks are called with and what
\* the server answers to a retry.
\*
\* A client that has one rate-limited call retried at a time and may send
\* another request meanwhile: any request, any response.
OneLoopClient ==
    [slots |-> 2, loops |-> 1, calls |-> MaxCallsOneLoop,
     maxNow |-> MaxNow, records |-> FALSE, patient |-> FALSE,
     requests |-> Requests, responses |-> Responses, replies |-> Replies]

\* A client with several rate-limited calls retried at the same time.
ConcurrentClient ==
    [slots |-> 2, loops |-> 2, calls |-> MaxCalls,
     maxNow |-> MaxNow, records |-> FALSE, patient |-> FALSE,
     requests |-> ConcurrentRequests, responses |-> ConcurrentResponses,
     replies |-> ConcurrentReplies]

\* A client that calls many endpoints, one rate-limited call retried at a
\* time.
EndpointClient ==
    [slots |-> 2, loops |-> 1, calls |-> MaxCallsOneLoop,
     maxNow |-> MaxNow, records |-> FALSE, patient |-> FALSE,
     requests |-> EndpointRequests, responses |-> EndpointResponses,
     replies |-> EndpointReplies]

\* A client whose server answers with headers and bodies of every shape.
ParsingClient ==
    [slots |-> 2, loops |-> 1, calls |-> MaxCallsOneLoop,
     maxNow |-> MaxNow, records |-> FALSE, patient |-> FALSE,
     requests |-> ParsingRequests, responses |-> ParsingResponses,
     replies |-> ParsingReplies]

\* A client that waits for a retry loop to use up its attempts.
ExhaustingClient ==
    [slots |-> 2, loops |-> 1, calls |-> MaxCallsOneLoop,
     maxNow |-> MaxNowExhausting, records |-> FALSE, patient |-> FALSE,
     requests |-> ExhaustingRequests, responses |-> ExhaustingResponses,
     replies |-> ExhaustingReplies]

\* A client that sends further requests to an endpoint while one
\* rate-limited call to it is retried.
WaitingClient ==
    [slots |-> 3, loops |-> 1, calls |-> MaxCallsWaiting,
     maxNow |-> MaxNow, records |-> TRUE, patient |-> FALSE,
     requests |-> WaitingRequests, responses |-> WaitingResponses,
     replies |-> WaitingReplies]

\* A client that calls two endpoints, before, while and after a
\* rate-limited call to one of them is retried.
RegistryClient ==
    [slots |-> 2, loops |-> 1, calls |-> MaxCalls,
     maxNow |-> MaxNow, records |-> FALSE, patient |-> FALSE,
     requests |-> RegistryRequests, responses |-> RegistryResponses,
     replies |-> RegistryReplies]

\* A client with several rate-limited calls retried at the same time that
\* waits for all of them to end.
PatientClient ==
    [slots |-> 2, loops |-> 2, calls |-> MaxCalls,
     maxNow |-> 0, records |-> FALSE, patient |-> TRUE,
     requests |-> PatientRequests, responses |-> PatientResponses,
     replies |-> PatientReplies]

\* A client with rate-limited calls to one endpoint retried at the same
\* time, each with retry-after times of its own.
InterferingClient ==
    [slots |-> 2, loops |-> 2, calls |-> MaxCallsOneLoop,
     maxNow |-> MaxNow, records |-> FALSE, patient |-> FALSE,
     requests |-> InterferingRequests, responses |-> InterferingResponses,
     replies |-> InterferingReplies]

\* A client of a manager whose queue holds deferred work.
QueueClient ==
    [slots |-> 2, loops |-> 1, calls |-> MaxCallsOneLoop,
     maxNow |-> MaxNow, records |-> FALSE, patient |-> FALSE,
     requests |-> QueueRequests, responses |-> QueueResponses,
     replies |-> QueueReplies]

InitFrom(cl, states) ==
    /\ client = cl
    /\ endpointStates = states
    /\ now = 0
    /\ pc = [p \in Procs |-> "idle"]
    /\ call = [p \in Procs |-> IdleCall]
    /\ result = [p \in Procs |-> NoResult]
    /\ signalled = {}
    /\ lastSignal =
          [e \in {} |-> [headers |-> NoHeaders, at |-> 0, seq |-> 0]]
    /\ lastRelease = [e \in {} |-> [waits |-> 0, due |-> 0]]
    /\ started = 0

\* new RateLimitManager(): private endpointStates = new Map()
InitWith(cl) == InitFrom(cl, [k \in {} |-> DefaultState])

Init == InitWith(OneLoopClient)

InitConcurrent == InitWith(ConcurrentClient)

InitEndpoints == InitWith(EndpointClient)

InitParsing == InitWith(ParsingClient)

InitExhausting == InitWith(ExhaustingClient)

InitWaiting == InitWith(WaitingClient)

InitRegistry == InitWith(RegistryClient)

InitPatient == InitWith(PatientClient)

InitInterfering == InitWith(InterferingClient)

\* A manager as warnIfQueueTooLarge may find it: the entry of an endpoint
\* holds a queue of any of the lengths of QueueSizes. The lengths are the
\* inputs the check of the queue size is applied to; no statement of this
\* manager fills a queue.
InitQueued ==
    \E n \in QueueSizes, request \in QueueRequests :
        InitFrom(QueueClient,
                 getEndpointKey(request) :>
                     [DefaultState EXCEPT !.queue = Queued(n, request)])

\* The caller of a hook takes its outcome as soon as the hook has returned
\* or thrown, before anything else happens in the model: taking the outcome
\* touches nothing of the middleware.
NoOutcomePending == \A q \in Procs : pc[q] \notin {"returned", "threw"}

\* the timer set by delay(ms) at delayStart has fired (setTimeout treats a
\* negative delay as 0)
TimerFired(c) == now >= c.delayStart + c.delayMs

\* await this.delay(ms)
Delay(c, ms) == [c EXCEPT !.delayStart = now, !.delayMs = ms, !.waits = @ + 1]

(***************************************************************************)
(* onRequest: waitForThrottle up to its await, or to the end of the hook.  *)
(***************************************************************************)
\* a hook that hands the request back: return request
FinishRequestWithRequest(p, c, states) ==
    /\ endpointStates' = states
    /\ call' = [call EXCEPT ![p] =
                  [c EXCEPT !.warned = warnIfQueueTooLarge(states, c.request)]]
    /\ result' = [result EXCEPT ![p] = [Undefined EXCEPT !.kind = "request"]]
    /\ pc' = [pc EXCEPT ![p] = "returned"]

\* the end of onRequest: warnIfQueueTooLarge(request); return undefined
FinishRequest(p, c, states) ==
    /\ endpointStates' = states
    /\ call' = [call EXCEPT ![p] =
                  [c EXCEPT !.warned = warnIfQueueTooLarge(states, c.request)]]
    /\ result' = [result EXCEPT ![p] = Undefined]
    /\ pc' = [pc EXCEPT ![p] = "returned"]

\* the client starts a hook in the first free slot
CanStart(p) ==
    /\ NoOutcomePending
    /\ p <= client.slots
    /\ pc[p] = "idle"
    /\ \A q \in Procs : q < p => pc[q] # "idle"
    /\ started < client.calls

\* a hook that puts the request it holds back into the queue of the endpoint
OnRequestQueueing(p, request) ==
    /\ CanStart(p)
    /\ started' = started + 1
    /\ LET endpointKey == getEndpointKey(request)
           states == InitEndpointState(endpointStates, endpointKey)
           state == states[endpointKey]
           c == [IdleCall EXCEPT !.hook = "onRequest", !.request = request]
       IN  IF state.isThrottled
           THEN IF waitTime(state, now) > 0
                THEN /\ endpointStates' =
                           [states EXCEPT ![endpointKey].queue = Append(@, request)]
                     /\ call' = [call EXCEPT ![p] = Delay(c, waitTime(state, now))]
                     /\ pc' = [pc EXCEPT ![p] = "waitForThrottle:delay"]
                     /\ UNCHANGED result
                ELSE FinishRequest(p, c, ClearThrottled(states, endpointKey))
           ELSE FinishRequest(p, c, states)
    /\ UNCHANGED <<now, signalled, lastSignal, lastRelease, client>>

\* a hook that lets requests through in the order they came: a request
\* waits behind the requests to its endpoint that are still held back
OnRequestInOrder(p, request) ==
    /\ CanStart(p)
    /\ started' = started + 1
    /\ LET endpointKey == getEndpointKey(request)
           states == InitEndpointState(endpointStates, endpointKey)
           state == states[endpointKey]
           c == [IdleCall EXCEPT !.hook = "onRequest", !.request = request]
           held == { q \in Procs : /\ pc[q] = "waitForThrottle:delay"
                                   /\ getEndpointKey(call[q].request) = endpointKey
                                   /\ ~TimerFired(call[q]) }
           behind == IF held = {} THEN 0
                     ELSE LET last == CHOOSE q \in held :
                                  \A r \in held :
                                      call[r].delayStart + call[r].delayMs
                                          <= call[q].delayStart + call[q].delayMs
                          IN  call[last].delayStart + call[last].delayMs - now
           ahead == IF state.isThrottled /\ waitTime(state, now) > behind
                    THEN waitTime(state, now) ELSE behind
       IN  IF ahead > 0
           THEN /\ endpointStates' = states
                /\ call' = [call EXCEPT ![p] = Delay(c, ahead)]
                /\ pc' = [pc EXCEPT ![p] = "waitForThrottle:delay"]
                /\ UNCHANGED result
           ELSE FinishRequest(p, c, IF state.isThrottled
                                    THEN ClearThrottled(states, endpointKey)
                                    ELSE states)
    /\ UNCHANGED <<now, signalled, lastSignal, lastRelease, client>>

OnRequest(p, request) ==
    /\ CanStart(p)
    /\ started' = started + 1
    /\ LET endpointKey == getEndpointKey(request)
           states == InitEndpointState(endpointStates, endpointKey)
           state == states[endpointKey]
           c == [IdleCall EXCEPT !.hook = "onRequest", !.request = request]
       IN  IF state.isThrottled
           THEN IF waitTime(state, now) > 0
                THEN /\ endpointStates' = states
                     /\ call' = [call EXCEPT ![p] = Delay(c, waitTime(state, now))]
                     /\ pc' = [pc EXCEPT ![p] = "waitForThrottle:delay"]
                     /\ UNCHANGED result
                ELSE FinishRequest(p, c, ClearThrottled(states, endpointKey))
           ELSE FinishRequest(p, c, states)
    /\ UNCHANGED <<now, signalled, lastSignal, lastRelease, client>>

\* a wake that also starts the window anew: state.lastRetryTime = Date.now()
WaitForThrottleResumeStamping(p) ==
    /\ NoOutcomePending
    /\ pc[p] = "waitForThrottle:delay"
    /\ TimerFired(call[p])
    /\ FinishRequest(p, call[p],
                     [ClearThrottled(endpointStates, getEndpointKey(call[p].request))
                         EXCEPT ![getEndpointKey(call[p].request)].lastRetryTime = now])
    /\ UNCHANGED <<now, signalled, lastSignal, lastRelease, started, client>>

\* the timer of waitForThrottle fired: state.isThrottled = false, then the
\* rest of onRequest
WaitForThrottleResume(p) ==
    /\ NoOutcomePending
    /\ pc[p] = "waitForThrottle:delay"
    /\ TimerFired(call[p])
    /\ FinishRequest(p, call[p],
                     ClearThrottled(endpointStates, getEndpointKey(call[p].request)))
    /\ UNCHANGED <<now, signalled, lastSignal, lastRelease, started, client>>

(***************************************************************************)
(* onResponse and handleResponse.                                          *)
(***************************************************************************)
\* return retryResponse / return response / return lastResponse
ReturnResponse(p, c, states, response) ==
    /\ endpointStates' = states
    /\ call' = [call EXCEPT ![p] = c]
    /\ result' = [result EXCEPT ![p] = Returned(response)]
    /\ pc' = [pc EXCEPT ![p] = "returned"]

\* the invocations that are inside handleResponse
RetryLoops ==
    { q \in Procs : pc[q] \in {"handleResponse:isRetryable", "handleResponse:delay",
                               "handleResponse:fetch",
                               "handleResponse:isRetryableAgain"} }

\* onResponse: a response that is no 429 is passed through; for a 429
\* handleResponse starts and suspends in await this.isRetryable(response)
OnResponse(p, request, response) ==
    /\ CanStart(p)
    /\ isRateLimited(response) => Cardinality(RetryLoops) < client.loops
    /\ started' = started + 1
    /\ LET c == [IdleCall EXCEPT !.hook = "onResponse", !.request = request,
                                 !.response = response]
       IN  /\ call' = [call EXCEPT ![p] = c]
           /\ IF isRateLimited(response)
              THEN /\ pc' = [pc EXCEPT ![p] = "handleResponse:isRetryable"]
                   /\ UNCHANGED result
              ELSE /\ pc' = [pc EXCEPT ![p] = "returned"]
                   /\ result' = [result EXCEPT ![p] = Undefined]
    /\ UNCHANGED <<endpointStates, now, signalled, lastSignal, lastRelease, client>>

\* giving up with the response the hook was called with
ExhaustedResponseOriginal(c) == c.response

\* the value returned after the for loop: return lastResponse
ExhaustedResponse(c) == c.lastResponse

\* answering a successful retry with the last 429
SuccessResponseStale(c) == c.lastResponse

\* the value returned for a retry that is no 429: return retryResponse
SuccessResponse(c) == c.retryResponse

\* answering a retry marked not retryable with the 429 before it
NonRetryableResponseStale(c) == c.lastResponse

\* the value returned for a retry that is a 429 marked not retryable:
\* return retryResponse
NonRetryableResponse(c) == c.retryResponse

\* a loop without a limit on its attempts
LoopHeadUnbounded(p, c, states) ==
    /\ endpointStates' = states
    /\ call' = [call EXCEPT ![p] = Delay(c, c.retryAfter * 1000)]
    /\ pc' = [pc EXCEPT ![p] = "handleResponse:delay"]
    /\ UNCHANGED result

\* the head of the for loop, entered with c.attempt: either the body
\* starts with await this.delay(retryAfter * 1000), or the loop is over
LoopHead(p, c, states) ==
    IF c.attempt < maxRetries
    THEN /\ endpointStates' = states
         /\ call' = [call EXCEPT ![p] = Delay(c, c.retryAfter * 1000)]
         /\ pc' = [pc EXCEPT ![p] = "handleResponse:delay"]
         /\ UNCHANGED result
    ELSE ReturnResponse(p, c, ClearThrottled(states, getEndpointKey(c.request)),
                        ExhaustedResponse(c))

\* isRetryable(response) resolved: a response that is not retryable is
\* returned; otherwise the signal is recorded and the loop entered
HandleResponseSignal(p) ==
    /\ NoOutcomePending
    /\ pc[p] = "handleResponse:isRetryable"
    /\ LET c == call[p]
           endpointKey == getEndpointKey(c.request)
       IN  IF ~isRetryable(c.response)
           THEN /\ ReturnResponse(p, c, endpointStates, c.response)
                /\ UNCHANGED <<signalled, lastSignal>>
           ELSE LET retryAfter == getRetryAfterTime(c.response)
                    states == RecordSignal(InitEndpointState(endpointStates, endpointKey),
                                           endpointKey, retryAfter, now)
                    c1 == [c EXCEPT !.retryAfter = retryAfter,
                                    !.lastResponse = c.response, !.attempt = 0]
                IN  /\ LoopHead(p, c1, states)
                    /\ signalled' = signalled \cup {EndpointOf(c.request)}
                    /\ lastSignal' = Signal(lastSignal, c, c.response)
    /\ UNCHANGED <<now, lastRelease, started, client>>

\* a retry that is sent once the window the endpoint state holds is over,
\* whichever invocation wrote it
RetryFetchAfterWindow(p) ==
    /\ NoOutcomePending
    /\ pc[p] = "handleResponse:delay"
    /\ waitTime(endpointStates[getEndpointKey(call[p].request)], now) <= 0
    /\ call' = [call EXCEPT ![p] =
                  [@ EXCEPT !.sends = @ + 1, !.sentRequest = call[p].request,
                            !.sentOptions = EmptyOptions]]
    /\ pc' = [pc EXCEPT ![p] = "handleResponse:fetch"]
    /\ UNCHANGED <<endpointStates, now, result, signalled, lastSignal, lastRelease, started, client>>

\* a retry that fetches the URL of the request: fetch(request.url)
RetryFetchUrl(p) ==
    /\ NoOutcomePending
    /\ pc[p] = "handleResponse:delay"
    /\ TimerFired(call[p])
    /\ call' = [call EXCEPT ![p] =
                  [@ EXCEPT !.sends = @ + 1,
                            !.sentRequest = Req("GET", call[p].request.url.pathname,
                                                call[p].request.url.search),
                            !.sentOptions = EmptyOptions]]
    /\ pc' = [pc EXCEPT ![p] = "handleResponse:fetch"]
    /\ UNCHANGED <<endpointStates, now, result, signalled, lastSignal, lastRelease, started, client>>

\* the timer of the loop fired: fetch(request, {})
RetryFetch(p) ==
    /\ NoOutcomePending
    /\ pc[p] = "handleResponse:delay"
    /\ TimerFired(call[p])
    /\ call' = [call EXCEPT ![p] =
                  [@ EXCEPT !.sends = @ + 1, !.sentRequest = call[p].request,
                            !.sentOptions = EmptyOptions]]
    /\ pc' = [pc EXCEPT ![p] = "handleResponse:fetch"]
    /\ UNCHANGED <<endpointStates, now, result, signalled, lastSignal, lastRelease, started, client>>

\* fetch resolved with reply: anything but a 429 is returned, a 429 goes
\* to await this.isRetryable(retryResponse)
FetchResolved(p, reply) ==
    /\ NoOutcomePending
    /\ pc[p] = "handleResponse:fetch"
    /\ LET retryResponse == [reply EXCEPT !.seq = call[p].sends]
           c == [call[p] EXCEPT !.retryResponse = retryResponse]
       IN  IF ~isRateLimited(retryResponse)
           THEN ReturnResponse(p, c,
                               ClearThrottled(endpointStates, getEndpointKey(c.request)),
                               SuccessResponse(c))
           ELSE /\ call' = [call EXCEPT ![p] = c]
                /\ pc' = [pc EXCEPT ![p] = "handleResponse:isRetryableAgain"]
                /\ UNCHANGED <<endpointStates, result>>
    /\ UNCHANGED <<now, signalled, lastSignal, lastRelease, started, client>>

\* a catch that swallows the error and goes on with the next attempt
FetchRejectedSwallowed(p, error) ==
    /\ NoOutcomePending
    /\ pc[p] = "handleResponse:fetch"
    /\ LoopHead(p, [call[p] EXCEPT !.fetchError = error, !.attempt = @ + 1],
                endpointStates)
    /\ UNCHANGED <<now, signalled, lastSignal, lastRelease, started, client>>

\* a catch that rethrows and leaves the flag as it is
FetchRejectedKeepingFlag(p, error) ==
    /\ NoOutcomePending
    /\ pc[p] = "handleResponse:fetch"
    /\ call' = [call EXCEPT ![p] = [@ EXCEPT !.fetchError = error]]
    /\ result' = [result EXCEPT ![p] = Thrown(error)]
    /\ pc' = [pc EXCEPT ![p] = "threw"]
    /\ UNCHANGED <<endpointStates, now, signalled, lastSignal, lastRelease, started, client>>

\* fetch rejected: catch (error) { state.isThrottled = false; throw error; }
FetchRejected(p, error) ==
    /\ NoOutcomePending
    /\ pc[p] = "handleResponse:fetch"
    /\ endpointStates' = ClearThrottled(endpointStates, getEndpointKey(call[p].request))
    /\ call' = [call EXCEPT ![p] = [@ EXCEPT !.fetchError = error]]
    /\ result' = [result EXCEPT ![p] = Thrown(error)]
    /\ pc' = [pc EXCEPT ![p] = "threw"]
    /\ UNCHANGED <<now, signalled, lastSignal, lastRelease, started, client>>

\* a loop that keeps the first retry-after time
NextRetryAfterKept(retryAfter, retryResponse) == retryAfter

\* retryAfter = this.getRetryAfterTime(retryResponse)
NextRetryAfter(retryAfter, retryResponse) == getRetryAfterTime(retryResponse)

\* isRetryable(retryResponse) resolved: a 429 that is not retryable is
\* returned; otherwise the state is updated and the loop goes on
RetryChecked(p) ==
    /\ NoOutcomePending
    /\ pc[p] = "handleResponse:isRetryableAgain"
    /\ LET c == call[p]
           endpointKey == getEndpointKey(c.request)
       IN  IF ~isRetryable(c.retryResponse)
           THEN /\ ReturnResponse(p, c, ClearThrottled(endpointStates, endpointKey),
                                  NonRetryableResponse(c))
                /\ UNCHANGED <<signalled, lastSignal>>
           ELSE LET retryAfter == NextRetryAfter(c.retryAfter, c.retryResponse)
                    states == UpdateSignal(endpointStates, endpointKey, retryAfter, now)
                    c1 == [c EXCEPT !.retryAfter = retryAfter,
                                    !.lastResponse = c.retryResponse,
                                    !.attempt = @ + 1]
                IN  /\ LoopHead(p, c1, states)
                    /\ signalled' = signalled \cup {EndpointOf(c.request)}
                    /\ lastSignal' = Signal(lastSignal, c, c.retryResponse)
    /\ UNCHANGED <<now, lastRelease, started, client>>

(***************************************************************************)
(* The environment: the caller takes the outcome of a hook, and time       *)
(* passes.                                                                 *)
(***************************************************************************)
Settle(p) ==
    /\ pc[p] \in {"returned", "threw"}
    /\ pc' = [pc EXCEPT ![p] = "idle"]
    /\ call' = [call EXCEPT ![p] = IdleCall]
    /\ result' = [result EXCEPT ![p] = NoResult]
    /\ lastRelease' = IF call[p].hook = "onRequest" /\ client.records
                      THEN Release(lastRelease, call[p])
                      ELSE lastRelease
    /\ UNCHANGED <<endpointStates, now, signalled, lastSignal, started, client>>

\* some delay() has a timer that has not fired
TimerPending ==
    \E p \in Procs :
        /\ pc[p] \in {"waitForThrottle:delay", "handleResponse:delay"}
        /\ ~TimerFired(call[p])

Tick ==
    /\ NoOutcomePending
    /\ \/ now + TickMs <= client.maxNow
       \/ client.patient /\ TimerPending
    /\ now' = now + TickMs
    /\ UNCHANGED <<endpointStates, pc, call, result, signalled, lastSignal, lastRelease, started, client>>

Next ==
    \/ \E p \in Procs, request \in client.requests : OnRequest(p, request)
    \/ \E p \in Procs : WaitForThrottleResume(p)
    \/ \E p \in Procs, request \in client.requests, response \in client.responses :
          OnResponse(p, request, response)
    \/ \E p \in Procs : HandleResponseSignal(p)
    \/ \E p \in Procs : RetryFetch(p)
    \/ \E p \in Procs, reply \in client.replies : FetchResolved(p, reply)
    \/ \E p \in Procs, error \in Errors : FetchRejected(p, error)
    \/ \E p \in Procs : RetryChecked(p)
    \/ \E p \in Procs : Settle(p)
    \/ Tick

Spec == Init /\ [][Next]_vars

SpecConcurrent == InitConcurrent /\ [][Next]_vars

SpecEndpoints == InitEndpoints /\ [][Next]_vars

SpecParsing == InitParsing /\ [][Next]_vars

SpecExhausting == InitExhausting /\ [][Next]_vars

SpecWaiting == InitWaiting /\ [][Next]_vars

SpecRegistry == InitRegistry /\ [][Next]_vars

SpecQueued == InitQueued /\ [][Next]_vars

SpecInterfering == InitInterfering /\ [][Next]_vars

\* what invocation p does next once it has started: the continuation of
\* the await it is suspended at (at most one of these is enabled, the one
\* of pc[p]), or the caller taking its outcome
Continue(p) ==
    \/ WaitForThrottleResume(p)
    \/ HandleResponseSignal(p)
    \/ RetryFetch(p)
    \/ \E reply \in client.replies : FetchResolved(p, reply)
    \/ \E error \in Errors : FetchRejected(p, error)
    \/ RetryChecked(p)
    \/ Settle(p)

\* Every timer fires in the end (time passes while a timer is pending),
\* every fetch resolves or rejects, every continuation that is ready runs,
\* and the caller takes every outcome.
Fairness ==
    /\ WF_vars(Tick)
    /\ \A p \in Procs : WF_vars(Continue(p))

SpecPatient == InitPatient /\ [][Next]_vars /\ Fairness

(***************************************************************************)
(* Properties.                                                             *)
(***************************************************************************)
\* invocation p takes a step
Moves(p) == pc'[p] # pc[p]

\* the endpoint state invocation p works on is not throttled
NotThrottled(states, p) ==
    LET e == EndpointOf(call[p].request)
    IN  e \in DOMAIN states /\ ~states[e].isThrottled

\* the body of the response is an object whose retryable member is false
MarkedNotRetryable(response) ==
    /\ response.body.valid
    /\ response.body.type = "object"
    /\ "retryable" \in response.body.keys
    /\ response.body.retryable = "false"

\* C1: the retry loop of one post-receive invocation issues at most 3
\* transport sends, whatever the transport answers; it never starts a wait
\* for a fourth; and an invocation that returns a retryable 429 (every retry
\* was answered with a retryable 429) has issued exactly 3 sends.
C1_AtMostThreeSends ==
    \A p \in Procs :
        /\ call[p].sends <= 3
        /\ pc[p] = "handleResponse:delay" => call[p].sends < 3
        /\ ( /\ pc[p] = "returned"
             /\ result[p].kind = "response"
             /\ result[p].response.status = 429
             /\ ~MarkedNotRetryable(result[p].response) )
           => call[p].sends = 3

C1_Witness ==
    \E p \in Procs :
        /\ pc[p] = "returned"
        /\ call[p].sends = 3
        /\ call[p].attempt = 3
        /\ result[p].kind = "response"
        /\ result[p].response.status = 429

\* C2: when a retry resolves to a status other than 429, the hook returns
\* in that step with that very response (the one of the latest send), sends
\* nothing more, and the endpoint's throttled flag is false in the state in
\* which it returns; a returned hook does nothing but hand over its result.
C2_FirstNon429EndsLoop ==
    [][\A p \in Procs :
          /\ ( /\ pc[p] = "handleResponse:fetch"
               /\ Moves(p)
               /\ call'[p].fetchError = ""
               /\ call'[p].retryResponse.status # 429 )
             => /\ pc'[p] = "returned"
                /\ result'[p] = Returned(call'[p].retryResponse)
                /\ result'[p].response.seq = call[p].sends
                /\ call'[p].sends = call[p].sends
                /\ NotThrottled(endpointStates', p)
          /\ (pc[p] = "returned" /\ Moves(p)) => pc'[p] = "idle"
      ]_vars

C2_Witness ==
    \E p \in Procs :
        /\ pc[p] = "returned"
        /\ call[p].sends = 2
        /\ call[p].lastResponse.status = 429
        /\ call[p].lastResponse.seq = 1
        /\ result[p].kind = "response"
        /\ result[p].response.status = 200
        /\ result[p].response.seq = 2
        /\ NotThrottled(endpointStates, p)

C4_TransportFailurePropagates ==
    [][\A p \in Procs :
          /\ ( /\ pc[p] = "handleResponse:fetch"
               /\ Moves(p)
               /\ call'[p].fetchError # "" )
             => /\ pc'[p] = "threw"
                /\ result'[p] = Thrown(call'[p].fetchError)
                /\ call'[p].sends = call[p].sends
                /\ NotThrottled(endpointStates', p)
          /\ (pc[p] = "threw" /\ Moves(p)) => pc'[p] = "idle"
      ]_vars

C4_Witness ==
    \E p \in Procs :
        /\ pc[p] = "threw"
        /\ result[p] = Thrown("Network error")
        /\ call[p].sends >= 1
        /\ NotThrottled(endpointStates, p)

\* C5: a post-receive invocation on a 429 whose body marks it not retryable
\* returns that same response (the one it was called with), without a send
\* and without a wait, and none of its steps changes the endpoint registry.
C5_NonRetryableOriginalPassesThrough ==
    [][\A p \in Procs :
          ( /\ pc[p] \in {"idle", "handleResponse:isRetryable"}
            /\ Moves(p)
            /\ call'[p].hook = "onResponse"
            /\ call'[p].response.status = 429
            /\ MarkedNotRetryable(call'[p].response) )
          => /\ endpointStates' = endpointStates
             /\ call'[p].sends = 0
             /\ call'[p].waits = 0
             /\ pc'[p] \in {"handleResponse:isRetryable", "returned"}
             /\ pc[p] = "handleResponse:isRetryable"
                => /\ pc'[p] = "returned"
                   /\ result'[p] = Returned(call[p].response)
                   /\ result'[p].response.seq = 0
      ]_vars

C5_Witness ==
    \E p \in Procs :
        /\ pc[p] = "returned"
        /\ call[p].hook = "onResponse"
        /\ MarkedNotRetryable(call[p].response)
        /\ result[p] = Returned(call[p].response)
        /\ call[p].sends = 0
        /\ call[p].waits = 0
        /\ EndpointOf(call[p].request) \notin DOMAIN endpointStates

\* C6: when a retry is answered with a 429 whose body marks it not
\* retryable, the hook returns in the step that finds this out, with that
\* retry's response, without a further send whatever the number of attempts
\* left, and the endpoint's throttled flag is false in the state in which
\* it returns.
C6_NonRetryableRetryStopsLoop ==
    [][\A p \in Procs :
          ( /\ pc[p] = "handleResponse:isRetryableAgain"
            /\ Moves(p)
            /\ MarkedNotRetryable(call[p].retryResponse) )
          => /\ pc'[p] = "returned"
             /\ result'[p] = Returned(call[p].retryResponse)
             /\ result'[p].response.seq = call[p].sends
             /\ call'[p].sends = call[p].sends
             /\ NotThrottled(endpointStates', p)
      ]_vars

C6_Witness ==
    \E p \in Procs :
        /\ pc[p] = "returned"
        /\ call[p].sends = 1
        /\ call[p].attempt = 0
        /\ result[p].kind = "response"
        /\ result[p].response.seq = 1
        /\ MarkedNotRetryable(result[p].response)
        /\ ~MarkedNotRetryable(call[p].response)
        /\ NotThrottled(endpointStates, p)

\* C7: a post-receive invocation on a response whose status is not 429
\* returns undefined in its first step, without a send and without a wait,
\* and leaves the endpoint registry as it is, whatever the registry holds.
C7_Non429IsNoOp ==
    [][\A p \in Procs :
          ( /\ pc[p] = "idle"
            /\ Moves(p)
            /\ call'[p].hook = "onResponse"
            /\ call'[p].response.status # 429 )
          => /\ pc'[p] = "returned"
             /\ result'[p] = Undefined
             /\ call'[p].sends = 0
             /\ call'[p].waits = 0
             /\ endpointStates' = endpointStates
      ]_vars

C7_Witness ==
    \E p \in Procs :
        /\ pc[p] = "returned"
        /\ call[p].hook = "onResponse"
        /\ call[p].response.status = 503
        /\ result[p] = Undefined
        /\ EndpointOf(call[p].request) \in DOMAIN endpointStates
        /\ endpointStates[EndpointOf(call[p].request)].lastRetryTime > 0

\* C8: a pre-send invocation suspends on a timer only for an endpoint
\* (method and path) for which a retryable 429 has been recorded before;
\* for every other endpoint it returns without a wait, whatever happened
\* on this and on other endpoints.
C8_NoSignalNoDelay ==
    \A p \in Procs :
        (call[p].hook = "onRequest" /\ EndpointOf(call[p].request) \notin signalled)
        => /\ call[p].waits = 0
           /\ pc[p] = "returned"

C8_Witness ==
    \E p \in Procs :
        /\ pc[p] = "returned"
        /\ call[p].hook = "onRequest"
        /\ call[p].waits = 0
        /\ EndpointOf(call[p].request) \notin signalled
        /\ \E e \in DOMAIN endpointStates :
              /\ e # EndpointOf(call[p].request)
              /\ endpointStates[e].isThrottled
              /\ endpointStates[e].lastRetryTime + endpointStates[e].retryAfter * 1000 > now

\* C9: a pre-send invocation that finds the throttled flag true at time
\* now computes remaining = lastSignalTime + retryAfterSeconds*1000 - now;
\* if remaining > 0 it calls delay(remaining) and leaves the state as it
\* is, otherwise it sets the flag to false and returns without a wait.  On
\* waking (not before the timer is due) it sets the flag to false and
\* returns, whatever lastSignalTime and retryAfterSeconds are by then, and
\* it changes neither of them.
C9_WaitsRemainingThenClears ==
    [][\A p \in Procs :
          LET e == EndpointOf(call'[p].request)
              remaining ==
                  endpointStates[e].lastRetryTime
                  + endpointStates[e].retryAfter * 1000 - now
          IN  /\ ( /\ pc[p] = "idle"
                   /\ Moves(p)
                   /\ call'[p].hook = "onRequest"
                   /\ e \in DOMAIN endpointStates
                   /\ endpointStates[e].isThrottled )
                 => IF remaining > 0
                    THEN /\ pc'[p] = "waitForThrottle:delay"
                         /\ call'[p].delayMs = remaining
                         /\ call'[p].delayStart = now
                         /\ call'[p].waits = 1
                         /\ endpointStates' = endpointStates
                    ELSE /\ pc'[p] = "returned"
                         /\ call'[p].waits = 0
                         /\ endpointStates' =
                               [endpointStates EXCEPT ![e].isThrottled = FALSE]
              /\ (pc[p] = "waitForThrottle:delay" /\ Moves(p))
                 => /\ now >= call[p].delayStart + call[p].delayMs
                    /\ pc'[p] = "returned"
                    /\ call'[p].waits = 1
                    /\ endpointStates' =
                          [endpointStates EXCEPT ![e].isThrottled = FALSE]
      ]_vars

\* a pre-send invocation has woken and cleared the flag although the
\* window, moved by a later signal while it slept, has not ended
C9_Witness ==
    \E p \in Procs :
        LET e == EndpointOf(call[p].request)
        IN  /\ pc[p] = "returned"
            /\ call[p].hook = "onRequest"
            /\ call[p].waits = 1
            /\ call[p].delayMs = 1000
            /\ ~endpointStates[e].isThrottled
            /\ endpointStates[e].lastRetryTime + endpointStates[e].retryAfter * 1000 > now
            /\ endpointStates[e].lastRetryTime > call[p].delayStart

\* the retry-after time of a response, read off its header
HeaderSeconds(response) ==
    IF "Retry-After" \notin DOMAIN response.headers
    THEN 1
    ELSE CASE response.headers["Retry-After"] = <<"0">> -> 0
           [] response.headers["Retry-After"] = <<"1">> -> 1
           [] response.headers["Retry-After"] = <<"2">> -> 2
           [] response.headers["Retry-After"] = <<"-", "1">> -> -1
           [] OTHER -> 1

\* C10: a retry is sent only when the timer of a wait of s*1000 ms is due,
\* s being the retry-after time of the 429 that came just before it in this
\* invocation (the hook's response for the first retry, the previous
\* retry's response afterwards; 1 without a valid Retry-After header), and
\* each send has its own wait; so a hook called with Retry-After 2 whose
\* first retry is answered 200 returns after exactly one send, at least
\* 2000 ms after it recorded the signal.
C10_RetryAfterWait ==
    \A p \in Procs :
        /\ pc[p] = "handleResponse:fetch"
           => /\ call[p].lastResponse.status = 429
              /\ call[p].lastResponse.seq = call[p].sends - 1
              /\ call[p].delayMs = HeaderSeconds(call[p].lastResponse) * 1000
              /\ now >= call[p].delayStart + call[p].delayMs
              /\ call[p].waits = call[p].sends
        /\ ( /\ pc[p] = "returned"
             /\ call[p].hook = "onResponse"
             /\ call[p].response.status = 429
             /\ HeaderSeconds(call[p].response) = 2
             /\ result[p].kind = "response"
             /\ result[p].response.status = 200
             /\ result[p].response.seq = 1 )
           => /\ call[p].sends = 1
              /\ call[p].waits = 1
              /\ call[p].delayMs = 2000
              /\ now >= call[p].delayStart + 2000

\* a second retry is in flight after a wait that differs from the first
C10_Witness ==
    \E p \in Procs :
        /\ pc[p] = "handleResponse:fetch"
        /\ call[p].sends = 2
        /\ HeaderSeconds(call[p].response) = 1
        /\ "Retry-After" \notin DOMAIN call[p].response.headers
        /\ HeaderSeconds(call[p].lastResponse) = 2
        /\ call[p].delayMs = 2000

\* the entries of the registry other than e are the same in states and after
SameElsewhere(e, states, after) ==
    /\ DOMAIN after \ {e} = DOMAIN states \ {e}
    /\ \A k \in DOMAIN states \ {e} : after[k] = states[k]

\* C11: every step of a hook invoked for endpoint e (method and path), a
\* post-receive invocation handling a retryable 429 or a pre-send invocation,
\* leaves the registry entries of all other endpoints as they are; and a
\* pre-send invocation for an endpoint whose own entry is absent or not
\* throttled returns in its first step without a wait, whatever the entries
\* of the endpoints that differ from it in method or in path hold, also
\* while a retry loop runs for one of them.
C11_PerEndpointIsolation ==
    [][\A p \in Procs :
          LET e == EndpointOf(call'[p].request)
          IN  /\ (Moves(p) /\ pc'[p] # "idle")
                 => SameElsewhere(e, endpointStates, endpointStates')
              /\ ( /\ pc[p] = "idle"
                   /\ Moves(p)
                   /\ call'[p].hook = "onRequest"
                   /\ e \in DOMAIN endpointStates => ~endpointStates[e].isThrottled )
                 => /\ pc'[p] = "returned"
                    /\ call'[p].waits = 0
      ]_vars

\* a pre-send invocation for POST /a has returned without a wait while a
\* retry loop runs for GET /a and the window of GET /a has not ended
C11_Witness ==
    \E p, q \in Procs :
        LET e == EndpointOf(call[p].request)
        IN  /\ pc[p] = "handleResponse:delay"
            /\ e \in DOMAIN endpointStates
            /\ endpointStates[e].isThrottled
            /\ endpointStates[e].lastRetryTime + endpointStates[e].retryAfter * 1000 > now
            /\ pc[q] = "returned"
            /\ call[q].hook = "onRequest"
            /\ call[q].waits = 0
            /\ call[q].request.method # call[p].request.method
            /\ call[q].request.url.pathname = call[p].request.url.pathname

\* the end of the window of the latest retryable 429 handled for endpoint e
WindowEnd(e) ==
    lastSignal[e].at + HeaderSeconds([headers |-> lastSignal[e].headers]) * 1000

\* C12: while a retry loop handles a retryable 429 received for a request,
\* a pre-send invocation for another request with the same method and the
\* same path, whose query string or body differs, that starts before the
\* window of the latest 429 has ended and finds the flag set, suspends on a
\* timer for what is left of that window, and returns only when the timer
\* is due.
C12_SameEndpointDespiteQuery ==
    [][\A p, q \in Procs :
          LET e == EndpointOf(call'[p].request)
          IN  /\ ( /\ pc[p] = "idle"
                   /\ Moves(p)
                   /\ call'[p].hook = "onRequest"
                   /\ pc[q] \in {"handleResponse:delay", "handleResponse:fetch",
                                 "handleResponse:isRetryableAgain"}
                   /\ call[q].request # call'[p].request
                   /\ call[q].request.method = call'[p].request.method
                   /\ call[q].request.url.pathname = call'[p].request.url.pathname
                   /\ endpointStates[e].isThrottled
                   /\ now < WindowEnd(e) )
                 => /\ pc'[p] = "waitForThrottle:delay"
                    /\ call'[p].delayStart = now
                    /\ call'[p].delayMs = WindowEnd(e) - now
              /\ (pc[p] = "waitForThrottle:delay" /\ Moves(p))
                 => now >= call[p].delayStart + call[p].delayMs
      ]_vars

\* a pre-send invocation for GET /a?id=1 waits for the window of the 429
\* that a retry loop handles for GET /a
C12_Witness ==
    \E p, q \in Procs :
        /\ pc[p] = "waitForThrottle:delay"
        /\ call[p].delayMs = 2000
        /\ pc[q] = "handleResponse:delay"
        /\ call[q].request.method = call[p].request.method
        /\ call[q].request.url.pathname = call[p].request.url.pathname
        /\ call[q].request.url.search = ""
        /\ call[p].request.url.search = "?id=1"

\* C13: when the retryability check of a 429 resolves, for the response the
\* hook was called with or for the answer to a retry, the invocation returns
\* that response at once exactly when its body is JSON, an object, has a
\* retryable member, and the member is the literal false; in every other
\* case (the member is true, is absent, holds null, 0 or the string
\* "false"; the body is a number, a string, a boolean, an array or null; the
\* body is no JSON) the retry loop is entered, or goes on: the signal is
\* recorded and the invocation waits for the next retry, or has used up its
\* attempts.
C13_RetryableUnlessMarkedFalse ==
    [][\A p \in Procs :
          /\ (pc[p] = "handleResponse:isRetryable" /\ Moves(p))
             => IF MarkedNotRetryable(call[p].response)
                THEN /\ pc'[p] = "returned"
                     /\ result'[p] = Returned(call[p].response)
                     /\ call'[p].waits = 0
                     /\ lastSignal' = lastSignal
                ELSE /\ pc'[p] = "handleResponse:delay"
                     /\ call'[p].waits = 1
                     /\ lastSignal'[EndpointOf(call[p].request)].seq = 0
                     /\ lastSignal'[EndpointOf(call[p].request)].at = now
          /\ (pc[p] = "handleResponse:isRetryableAgain" /\ Moves(p))
             => IF MarkedNotRetryable(call[p].retryResponse)
                THEN /\ pc'[p] = "returned"
                     /\ result'[p] = Returned(call[p].retryResponse)
                     /\ call'[p].waits = call[p].waits
                     /\ lastSignal' = lastSignal
                ELSE /\ lastSignal'[EndpointOf(call[p].request)].seq = call[p].sends
                     /\ IF call[p].sends < 3
                        THEN /\ pc'[p] = "handleResponse:delay"
                             /\ call'[p].waits = call[p].waits + 1
                        ELSE pc'[p] = "returned"
      ]_vars

\* the retry loop was entered for a 429 whose retryable member is the
\* string "false"
C13_Witness ==
    \E p \in Procs :
        /\ pc[p] = "handleResponse:fetch"
        /\ call[p].sends = 1
        /\ call[p].response.body.type = "object"
        /\ "retryable" \in call[p].response.body.keys
        /\ call[p].response.body.retryable = "\"false\""

\* the integer a Retry-After header starts with, and 1 where it starts with
\* none or is absent
RetryAfterSeconds(headers) ==
    IF "Retry-After" \notin DOMAIN headers
    THEN 1
    ELSE CASE headers["Retry-After"] = <<"0">> -> 0
           [] headers["Retry-After"] = <<"1">> -> 1
           [] headers["Retry-After"] = <<"2">> -> 2
           [] headers["Retry-After"] = <<"0", "3">> -> 3
           [] headers["Retry-After"] = <<"-", "1">> -> -1
           [] headers["Retry-After"] = <<"+", "2">> -> 2
           [] headers["Retry-After"] = <<"2", "s">> -> 2
           [] headers["Retry-After"] = <<"1", ".", "5">> -> 1
           [] headers["Retry-After"] = <<"-">> -> 1
           [] headers["Retry-After"] = <<>> -> 1
           [] headers["Retry-After"] = <<"s", "o", "o", "n">> -> 1

\* C14: the retry-after time the loop works with, and the one stored in the
\* endpoint state, is the integer the Retry-After header of the latest
\* retryable 429 holds (read as parseInt reads it: an optional sign and the
\* leading decimal digits), and 1 when the header is absent, empty or does
\* not start with an integer; a header of 0 gives 0, so the next retry is
\* sent after a wait of 0 ms.
C14_RetryAfterParsed ==
    /\ \A p \in Procs :
          pc[p] = "handleResponse:delay"
          => /\ call[p].retryAfter = RetryAfterSeconds(call[p].lastResponse.headers)
             /\ call[p].delayMs = RetryAfterSeconds(call[p].lastResponse.headers) * 1000
    /\ \A e \in DOMAIN lastSignal :
          /\ e \in DOMAIN endpointStates
          /\ endpointStates[e].retryAfter = RetryAfterSeconds(lastSignal[e].headers)

\* a retry loop waits 0 ms for a header of 0
C14_Witness ==
    \E p \in Procs :
        /\ pc[p] = "handleResponse:delay"
        /\ call[p].lastResponse.headers = RetryAfterHeader(<<"0">>)
        /\ call[p].retryAfter = 0
        /\ call[p].delayMs = 0
        /\ endpointStates[EndpointOf(call[p].request)].retryAfter = 0

\* C15: the retry-after time computed from a response is never negative,
\* whatever its Retry-After header holds, a negative integer included; so
\* neither the retry-after time a retry loop works with nor the one stored
\* in an endpoint state is ever negative.
C15_RetryAfterNeverNegative ==
    /\ \A p \in Procs : call[p].retryAfter >= 0
    /\ \A e \in DOMAIN endpointStates : endpointStates[e].retryAfter >= 0

\* C16: once a post-receive invocation for a 429 with Retry-After: 2 has
\* had its three retries answered with 429 and Retry-After: 2, and has
\* returned, the endpoint stays throttled: a pre-send invocation for that
\* endpoint that starts less than 2000 ms after the last of these answers
\* suspends on a timer that is not due before these 2000 ms are over.
\* (The 429 handled last for the endpoint is the answer to a third retry:
\* the loop has used up its attempts and returned in the step that recorded
\* it; no loop runs.)
C16_ThrottledAfterExhaustion ==
    [][\A p \in Procs :
          LET e == EndpointOf(call'[p].request)
          IN  ( /\ pc[p] = "idle"
                /\ Moves(p)
                /\ call'[p].hook = "onRequest"
                /\ RetryLoops = {}
                /\ e \in DOMAIN lastSignal
                /\ lastSignal[e].seq = 3
                /\ lastSignal[e].headers = RetryAfterHeader(<<"2">>)
                /\ now < lastSignal[e].at + 2000 )
              => /\ pc'[p] = "waitForThrottle:delay"
                 /\ call'[p].delayStart + call'[p].delayMs >= lastSignal[e].at + 2000
      ]_vars

\* C17: requests to an endpoint that has hit its rate limit are queued:
\* while a pre-send invocation is held back for a rate-limited endpoint, the
\* queue of that endpoint is not empty (its queue size is positive).
C17_HeldRequestsAreQueued ==
    \A p \in Procs :
        pc[p] = "waitForThrottle:delay"
        => getQueueSize(endpointStates, call[p].request) > 0

\* C18: a pre-send invocation, whatever the request and whatever the
\* registry holds, is either suspended on its timer or has returned; what
\* it returns is undefined, never a request or a response; it never throws;
\* and it never calls the transport.
C18_PreSendOnlyDelays ==
    \A p \in Procs :
        call[p].hook = "onRequest"
        => /\ pc[p] \in {"waitForThrottle:delay", "returned"}
           /\ pc[p] = "returned" => result[p] = Undefined
           /\ pc[p] = "waitForThrottle:delay" => result[p] = NoResult
           /\ call[p].sends = 0
           /\ call[p].sentRequest = NoRequest
           /\ call[p].fetchError = ""

\* a pre-send invocation has returned undefined after a wait
C18_Witness ==
    \E p \in Procs :
        /\ call[p].hook = "onRequest"
        /\ pc[p] = "returned"
        /\ result[p] = Undefined
        /\ call[p].waits = 1
        /\ call[p].delayMs > 0
        /\ call[p].sends = 0

\* C19: in every state, whatever hooks are in progress and however their
\* steps interleave, an endpoint whose throttled flag is true has the
\* retry-after time and the signal time of the retryable 429 handled last
\* for it, by whichever invocation, as the hook's response or as the answer
\* to a retry: both fields are of that one signal, never one of it and the
\* other of an earlier one.
C19_ThrottledReflectsLastSignal ==
    \A e \in DOMAIN endpointStates :
        endpointStates[e].isThrottled
        => /\ e \in DOMAIN lastSignal
           /\ endpointStates[e].retryAfter = RetryAfterSeconds(lastSignal[e].headers)
           /\ endpointStates[e].lastRetryTime = lastSignal[e].at

\* two retry loops run for a throttled endpoint, and the signal handled
\* last was the answer to a retry
C19_Witness ==
    \E p, q \in Procs :
        LET e == EndpointOf(call[p].request)
        IN  /\ p # q
            /\ {p, q} \subseteq RetryLoops
            /\ EndpointOf(call[q].request) = e
            /\ e \in DOMAIN lastSignal
            /\ endpointStates[e].isThrottled
            /\ lastSignal[e].seq >= 1
            /\ lastSignal[e].at > 0
            /\ endpointStates[e].lastRetryTime = lastSignal[e].at

\* C20: a pre-send invocation that starts inside the window of the
\* retryable 429 handled last for its endpoint (from the time that signal
\* was recorded, for its retry-after time), be the signal the hook's
\* response or the answer to a retry, and whatever other invocations and
\* retry loops are in progress, does not return in that step: it suspends
\* on a timer that is not due before the window ends.
C20_WaitsInsideWindow ==
    [][\A p \in Procs :
          LET e == EndpointOf(call'[p].request)
          IN  ( /\ pc[p] = "idle"
                /\ Moves(p)
                /\ call'[p].hook = "onRequest"
                /\ e \in DOMAIN lastSignal
                /\ lastSignal[e].at <= now
                /\ now < WindowEnd(e) )
              => /\ pc'[p] = "waitForThrottle:delay"
                 /\ call'[p].delayStart + call'[p].delayMs >= WindowEnd(e)
      ]_vars

\* the time the timer of the pending (or last) delay of c is due
TimerDue(c) == c.delayStart + c.delayMs

\* C21: a pre-send invocation that finds the flag of its endpoint set and
\* the window still open suspends until the window end it reads on arrival
\* (lastRetryTime + retryAfter * 1000), which is the time an invocation for
\* the same endpoint, already suspended, waits for when no signal was
\* recorded since that one arrived; an invocation that wakes leaves the
\* flag false and every other field of the state, and every other entry,
\* as it found it; a wake that finds the flag already false, cleared by the
\* invocation that woke before it, changes nothing.
C21_ConcurrentWaitsClearOnce ==
    [][\A p, q \in Procs :
          LET e == EndpointOf(call'[p].request)
          IN  /\ ( /\ pc[p] = "idle"
                   /\ Moves(p)
                   /\ call'[p].hook = "onRequest"
                   /\ e \in DOMAIN endpointStates
                   /\ endpointStates[e].isThrottled
                   /\ now < endpointStates[e].lastRetryTime
                              + endpointStates[e].retryAfter * 1000 )
                 => /\ pc'[p] = "waitForThrottle:delay"
                    /\ TimerDue(call'[p]) = endpointStates[e].lastRetryTime
                                              + endpointStates[e].retryAfter * 1000
                    /\ ( /\ pc[q] = "waitForThrottle:delay"
                         /\ EndpointOf(call[q].request) = e
                         /\ lastSignal[e].at < call[q].delayStart )
                       => TimerDue(call'[p]) = TimerDue(call[q])
              /\ (pc[p] = "waitForThrottle:delay" /\ Moves(p))
                 => /\ now >= TimerDue(call[p])
                    /\ pc'[p] = "returned"
                    /\ ~endpointStates'[e].isThrottled
                    /\ endpointStates' =
                          [endpointStates EXCEPT ![e].isThrottled = FALSE]
                    /\ ~endpointStates[e].isThrottled
                       => endpointStates' = endpointStates
      ]_vars

\* the second of two pre-send invocations that waited for the same window
\* end, having both arrived after the signal, has returned: the first one
\* had cleared the flag, and the state still holds the signal the retry
\* loop recorded
C21_Witness ==
    \E p, q \in Procs :
        LET e == EndpointOf(call[q].request)
        IN  /\ pc[q] = "returned"
            /\ call[q].hook = "onRequest"
            /\ call[q].waits = 1
            /\ e \in DOMAIN lastRelease
            /\ lastRelease[e].waits = 1
            /\ lastRelease[e].due = TimerDue(call[q])
            /\ lastSignal[e].at < call[q].delayStart
            /\ p \in RetryLoops
            /\ EndpointOf(call[p].request) = e
            /\ ~endpointStates[e].isThrottled
            /\ endpointStates[e].retryAfter = 2
            /\ endpointStates[e].lastRetryTime = lastSignal[e].at

\* C22: pre-send invocations for one endpoint are not released in the
\* order they arrived. Each decides on its own: one that arrives when the
\* flag is false, or the window over, returns in that step although
\* invocations for the same endpoint that arrived before it are still
\* suspended; a suspended one returns only when its own timer is due. An
\* execution in which a later invocation returns before an earlier one is
\* reachable: C22_Witness.
C22_NoArrivalOrder ==
    [][\A p \in Procs :
          LET e == EndpointOf(call'[p].request)
          IN  /\ ( /\ pc[p] = "idle"
                   /\ Moves(p)
                   /\ call'[p].hook = "onRequest"
                   /\ e \in DOMAIN endpointStates
                   /\ \/ ~endpointStates[e].isThrottled
                      \/ now >= endpointStates[e].lastRetryTime
                                   + endpointStates[e].retryAfter * 1000 )
                 => /\ pc'[p] = "returned"
                    /\ call'[p].waits = 0
              /\ (pc[p] = "waitForThrottle:delay" /\ Moves(p))
                 => now >= TimerDue(call[p])
      ]_vars

\* a pre-send invocation has returned without a wait, 1000 ms or more after
\* another one for the same endpoint was suspended, whose timer is not due
\* yet: the flag was cleared meanwhile
C22_Witness ==
    \E p, q \in Procs :
        /\ pc[p] = "returned"
        /\ call[p].hook = "onRequest"
        /\ call[p].waits = 0
        /\ pc[q] = "waitForThrottle:delay"
        /\ EndpointOf(call[q].request) = EndpointOf(call[p].request)
        /\ call[q].delayStart < now
        /\ now < TimerDue(call[q])

\* C23: traffic to a rate-limited endpoint is serialized: of the retry
\* loops that run at the same time for requests to one endpoint, at most
\* one has a retry send in flight.
C23_OneRetrySendInFlight ==
    \A p, q \in Procs :
        ( /\ p # q
          /\ pc[p] = "handleResponse:fetch"
          /\ pc[q] = "handleResponse:fetch" )
        => EndpointOf(call[p].request) # EndpointOf(call[q].request)

\* C24: when every timer fires in the end and every fetch resolves or
\* rejects in the end, every hook invocation that has started completes:
\* a post-receive invocation returns (a response, or undefined for a
\* response that is no 429) or throws the error of the transport, after at
\* most 3 waits and 3 sends; a pre-send invocation returns, after at most
\* one wait; whatever other invocations run for the same endpoint
\* meanwhile.
C24_EveryInvocationCompletes ==
    /\ [](\A p \in Procs :
            /\ call[p].waits <= 3
            /\ call[p].sends <= 3
            /\ call[p].hook = "onRequest" => call[p].waits <= 1)
    /\ \A p \in Procs :
          (pc[p] # "idle")
          ~> ( /\ pc[p] \in {"returned", "threw"}
               /\ result[p].kind \in {"response", "undefined", "error"} )

\* a retry loop has returned after 3 waits and 3 sends while another loop
\* for the same endpoint is still waiting
C24_Witness ==
    \E p, q \in Procs :
        /\ pc[p] = "returned"
        /\ call[p].hook = "onResponse"
        /\ call[p].waits = 3
        /\ call[p].sends = 3
        /\ pc[q] = "handleResponse:delay"
        /\ EndpointOf(call[q].request) = EndpointOf(call[p].request)
        /\ now > client.maxNow

\* C25: the registry has one entry per endpoint identity (method and path)
\* and only for identities of requests the hooks were called with. No step
\* removes an entry. An entry appears only in the first step of a pre-send
\* invocation for that identity, with the default values, or in the step of
\* a post-receive invocation that finds its 429 retryable, with the default
\* values and the signal written over them in the same step. Creation
\* never touches an entry that is there: a pre-send invocation that finds
\* one changes at most its flag, to false, and changes nothing when it
\* suspends, so it never erases the throttle a 429 recorded; a
\* post-receive invocation that finds one writes the three fields of the
\* signal and keeps the rest.
C25_RegistryKeepsEntries ==
    [][/\ DOMAIN endpointStates \subseteq DOMAIN endpointStates'
       /\ DOMAIN endpointStates' \subseteq
             { <<request.method, request.url.pathname>> :
                   request \in client.requests }
       /\ \A e \in DOMAIN endpointStates' \ DOMAIN endpointStates :
             \E p \in Procs :
                 /\ Moves(p)
                 /\ <<call'[p].request.method, call'[p].request.url.pathname>> = e
                 /\ \/ /\ pc[p] = "idle"
                       /\ call'[p].hook = "onRequest"
                       /\ endpointStates'[e] = DefaultState
                    \/ /\ pc[p] = "handleResponse:isRetryable"
                       /\ ~MarkedNotRetryable(call[p].response)
                       /\ endpointStates'[e] =
                             [DefaultState EXCEPT
                                 !.isThrottled = TRUE,
                                 !.retryAfter = RetryAfterSeconds(call[p].response.headers),
                                 !.lastRetryTime = now]
       /\ \A p \in Procs :
             LET e == <<call'[p].request.method, call'[p].request.url.pathname>>
             IN  /\ ( /\ pc[p] = "idle"
                      /\ Moves(p)
                      /\ call'[p].hook = "onRequest"
                      /\ e \in DOMAIN endpointStates )
                    => /\ endpointStates' \in
                             { endpointStates,
                               [endpointStates EXCEPT ![e].isThrottled = FALSE] }
                       /\ pc'[p] = "waitForThrottle:delay"
                          => endpointStates' = endpointStates
                 /\ ( /\ pc[p] = "handleResponse:isRetryable"
                      /\ Moves(p)
                      /\ e \in DOMAIN endpointStates )
                    => /\ endpointStates'[e].queue = endpointStates[e].queue
                       /\ endpointStates'[e].processing = endpointStates[e].processing
                       /\ MarkedNotRetryable(call[p].response)
                          => endpointStates' = endpointStates
      ]_vars

\* the registry holds an entry a pre-send invocation created for POST /a,
\* still with the default values, and the entry a 429 for GET /a created;
\* a pre-send invocation for GET /a?id=1 has found that one and is
\* suspended, and the entry holds the signal as before
C25_Witness ==
    \E p, q \in Procs :
        /\ DOMAIN endpointStates = { <<"POST", "/a">>, <<"GET", "/a">> }
        /\ endpointStates[<<"POST", "/a">>] = DefaultState
        /\ pc[q] = "handleResponse:delay"
        /\ call[q].request = Req("GET", "/a", "")
        /\ pc[p] = "waitForThrottle:delay"
        /\ call[p].request = Req("GET", "/a", "?id=1")
        /\ endpointStates[<<"GET", "/a">>] =
              [DefaultState EXCEPT !.isThrottled = TRUE, !.retryAfter = 2,
                                   !.lastRetryTime = call[q].delayStart]
        /\ call[p].delayStart > call[q].delayStart

C28_NoDelayAfterWindow ==
    [][\A p \in Procs :
          LET e == EndpointOf(call'[p].request)
          IN  /\ ( /\ pc[p] = "idle"
                   /\ Moves(p)
                   /\ call'[p].hook = "onRequest"
                   /\ e \in DOMAIN endpointStates
                   /\ now >= endpointStates[e].lastRetryTime
                                + endpointStates[e].retryAfter * 1000 )
                 => /\ pc'[p] = "returned"
                    /\ call'[p].waits = 0
                    /\ endpointStates' =
                          [endpointStates EXCEPT ![e].isThrottled = FALSE]
                    /\ ~endpointStates[e].isThrottled
                       => endpointStates' = endpointStates
              /\ ( /\ Moves(p)
                   /\ e \in DOMAIN endpointStates
                   /\ ~endpointStates[e].isThrottled
                   /\ endpointStates'[e].isThrottled )
                 => pc[p] = "handleResponse:isRetryable"
      ]_vars

\* the second of two pre-send invocations made after the end of the window
\* has returned without a wait, as the first did; the first found the flag
\* still set (the retry of the only loop is in flight, and there was no
\* other invocation) and cleared it
C28_Witness ==
    \E p, q \in Procs :
        LET e == EndpointOf(call[p].request)
        IN  /\ started = 3
            /\ pc[q] = "handleResponse:fetch"
            /\ EndpointOf(call[q].request) = e
            /\ pc[p] = "returned"
            /\ call[p].hook = "onRequest"
            /\ call[p].waits = 0
            /\ e \in DOMAIN lastRelease
            /\ lastRelease[e].waits = 0
            /\ lastRelease[e].due >= endpointStates[e].lastRetryTime
                                       + endpointStates[e].retryAfter * 1000
            /\ endpointStates[e].lastRetryTime = lastSignal[e].at
            /\ endpointStates[e].retryAfter > 0
            /\ ~endpointStates[e].isThrottled

\* C29: every fetch a post-receive invocation calls has the request the
\* hook was called with as its first argument, method, URL and body
\* included, and empty options as its second; the request of an invocation
\* is the same from its first step to its last, so each of the up to 3
\* retries sends the same request; nothing but a fetch changes what was
\* sent.
C29_RetriesSendOriginalRequest ==
    [][\A p \in Procs :
          /\ call'[p].sends > call[p].sends
             => /\ call[p].hook = "onResponse"
                /\ call'[p].sends = call[p].sends + 1
                /\ call'[p].sends <= 3
                /\ call'[p].sentRequest = call[p].request
                /\ call'[p].sentOptions = EmptyOptions
          /\ (pc[p] # "idle" /\ pc'[p] # "idle")
             => /\ call'[p].request = call[p].request
                /\ call'[p].sends = call[p].sends
                   => /\ call'[p].sentRequest = call[p].sentRequest
                      /\ call'[p].sentOptions = call[p].sentOptions
          /\ (pc[p] = "idle" /\ Moves(p))
             => /\ call'[p].request \in client.requests
                /\ call'[p].sends = 0
      ]_vars

\* the third retry of a POST with a body is in flight
C29_Witness ==
    \E p \in Procs :
        /\ pc[p] = "handleResponse:fetch"
        /\ call[p].sends = 3
        /\ call[p].request = WithBody(Req("POST", "/a", ""), "{\"id\":1}")
        /\ call[p].sentRequest = call[p].request
        /\ call[p].sentOptions = EmptyOptions

\* the invocations that have recorded a 429 for endpoint e and have not
\* returned or thrown yet
LoopsOf(e) ==
    { q \in Procs : /\ pc[q] \in {"handleResponse:delay", "handleResponse:fetch",
                                   "handleResponse:isRetryableAgain"}
                    /\ EndpointOf(call[q].request) = e }

C31_ThrottledWhileRetrying ==
    \A e \in DOMAIN endpointStates :
        LoopsOf(e) # {} => endpointStates[e].isThrottled

\* C32: a step of a pre-send invocation, its first or its wake, leaves the
\* entries of all endpoints but its own as they are; it creates the entry
\* of its own endpoint with the default values when there is none; in an
\* entry that is there it changes nothing but the flag, and the flag only
\* from true to false: retryAfter, lastRetryTime, queue and processing stay,
\* and a flag that is false stays false.
C32_PreSendWrites ==
    [][\A p \in Procs :
          LET e == EndpointOf(call'[p].request)
          IN  (Moves(p) /\ call'[p].hook = "onRequest")
              => /\ SameElsewhere(e, endpointStates, endpointStates')
                 /\ e \in DOMAIN endpointStates'
                 /\ e \notin DOMAIN endpointStates
                    => endpointStates'[e] = DefaultState
                 /\ e \in DOMAIN endpointStates
                    => /\ endpointStates'[e].retryAfter = endpointStates[e].retryAfter
                       /\ endpointStates'[e].lastRetryTime = endpointStates[e].lastRetryTime
                       /\ endpointStates'[e].queue = endpointStates[e].queue
                       /\ endpointStates'[e].processing = endpointStates[e].processing
                       /\ endpointStates'[e].isThrottled => endpointStates[e].isThrottled
      ]_vars

\* a pre-send invocation for GET /a has waited for the window of a 429 and
\* returned: the flag is false, the entry holds the retry-after time and the
\* time of the signal as before, and the entry of POST /a is untouched
C32_Witness ==
    \E p \in Procs :
        /\ pc[p] = "returned"
        /\ call[p].hook = "onRequest"
        /\ call[p].request.method = "GET"
        /\ call[p].waits = 1
        /\ DOMAIN endpointStates = { <<"POST", "/a">>, <<"GET", "/a">> }
        /\ endpointStates[<<"POST", "/a">>] = DefaultState
        /\ endpointStates[<<"GET", "/a">>] =
              [DefaultState EXCEPT !.retryAfter = 2,
                                   !.lastRetryTime = lastSignal[<<"GET", "/a">>].at]
        /\ now >= lastSignal[<<"GET", "/a">>].at + 2000

\* C33: what a post-receive invocation waits and sends follows from the
\* responses to its own request alone, step by step, without a look at
\* the endpoint state other invocations write: it waits first, from the
\* step that finds its 429 retryable, for the retry-after time of that
\* response; it sends one retry when that timer is due, not before; the
\* answer decides whether it returns, throws or checks the answer; after a
\* retryable 429 it waits for the retry-after time of that answer, unless
\* it has sent 3 retries. So two invocations that receive the same
\* responses wait the same times and send as often, whatever else runs for
\* the endpoint.
C33_WaitsFromOwnResponses ==
    [][\A p \in Procs :
          /\ (pc[p] = "handleResponse:isRetryable" /\ Moves(p))
             => IF MarkedNotRetryable(call[p].response)
                THEN /\ pc'[p] = "returned"
                     /\ call'[p].waits = 0
                     /\ call'[p].sends = 0
                ELSE /\ pc'[p] = "handleResponse:delay"
                     /\ call'[p].waits = 1
                     /\ call'[p].sends = 0
                     /\ call'[p].delayStart = now
                     /\ call'[p].delayMs =
                           RetryAfterSeconds(call[p].response.headers) * 1000
          /\ (pc[p] = "handleResponse:delay" /\ Moves(p))
             => /\ now >= TimerDue(call[p])
                /\ pc'[p] = "handleResponse:fetch"
                /\ call'[p].sends = call[p].sends + 1
                /\ call'[p].waits = call[p].waits
          /\ (pc[p] = "handleResponse:fetch" /\ Moves(p))
             => /\ call'[p].sends = call[p].sends
                /\ call'[p].waits = call[p].waits
                /\ pc'[p] = "threw" <=> call'[p].fetchError # ""
                /\ pc'[p] = "handleResponse:isRetryableAgain"
                   <=> (call'[p].fetchError = "" /\ call'[p].retryResponse.status = 429)
                /\ pc'[p] = "returned"
                   <=> (call'[p].fetchError = "" /\ call'[p].retryResponse.status # 429)
          /\ (pc[p] = "handleResponse:isRetryableAgain" /\ Moves(p))
             => /\ call'[p].sends = call[p].sends
                /\ IF MarkedNotRetryable(call[p].retryResponse) \/ call[p].sends = 3
                   THEN /\ pc'[p] = "returned"
                        /\ call'[p].waits = call[p].waits
                   ELSE /\ pc'[p] = "handleResponse:delay"
                        /\ call'[p].waits = call[p].waits + 1
                        /\ call'[p].delayStart = now
                        /\ call'[p].delayMs =
                              RetryAfterSeconds(call[p].retryResponse.headers) * 1000
      ]_vars

\* an invocation waits the 2000 ms of its own 429 while the endpoint state
\* holds the retry-after time and the signal time another invocation, still
\* in its loop, wrote after it
C33_Witness ==
    \E p, q \in Procs :
        LET e == EndpointOf(call[p].request)
        IN  /\ p # q
            /\ pc[p] = "handleResponse:delay"
            /\ call[p].delayMs = 2000
            /\ q \in LoopsOf(e)
            /\ endpointStates[e].retryAfter = 1
            /\ endpointStates[e].lastRetryTime > call[p].delayStart
            /\ now < TimerDue(call[p])

====
